---- MODULE Spec2Model ----
(***************************************************************************)
(* VisiData 0.39 (src/visidata/__init__.py): the application loop with its *)
(* sheet stack and prefixed key commands, the row commands of a sheet, the *)
(* status and error histories, the join engine, the frequency table, the   *)
(* tab-separated saver and loader, and type detection.                     *)
(*                                                                         *)
(* The specifications of the module:                                       *)
(*   Spec        the application loop over a stack of sheets               *)
(*   SpecRows    the application loop over one sheet whose rows are moved, *)
(*               selected, sorted and deleted                              *)
(*   SpecErrors  the application loop with commands that keep failing      *)
(*   SpecHistory VisiData.status and Ctrl-P over the status history        *)
(*   SpecJoin    SheetJoin.reload over bounded source sheets               *)
(*   SpecFreq    SheetFreqTable over a bounded source sheet                *)
(*   SpecQuit    the application loop with q and g q; run, once at its     *)
(*               exit test with no sheet left, returns (weak fairness)     *)
(*   SpecDrill   SheetFreqTable, ENTER on one of its rows, and deletions   *)
(*               and moves of rows on the sheet ENTER opens and on the     *)
(*               source sheet                                              *)
(*   SpecSheets  the application loop with Shift-S and, on the sheet it    *)
(*               opens, ENTER                                              *)
(*   SpecEdit    the application loop with Ctrl-S, Ctrl-O and e, with      *)
(*               options.readonly set or not                               *)
(*   SpecTsv     save_tsv of a bounded sheet, then open_tsv of the file    *)
(*   SpecTypes   detectType on the cells of the cursor row (~ and g ~)     *)
(*                                                                         *)
(* vd.statusHistory is read by Ctrl-P and g Ctrl-P only; the loop          *)
(* specifications do not press these keys and leave the history out, and   *)
(* SpecHistory carries it.                                                 *)
(***************************************************************************)
EXTENDS Integers, Sequences, FiniteSets, TLC

VARIABLES
    pc,              \* position of VisiData.run: start, loop, getch, returned, raised
    sheets,          \* vd.sheets, head first
    prefixes,        \* run's local `prefixes`, a sequence of prefix characters
    ch,              \* run's local `ch`, the last input event read by getch
    branch,          \* the branch of run taken by the last step
    debug,           \* options.debug
    lastErrors,      \* vd.lastErrors, oldest first
    status,          \* vd._status, the pending status messages
    statusstr,       \* drawLeftStatus's statusstr: the status line drawn in the
                     \* current iteration, << >> when none has been drawn in it
    statusHistory,   \* vd.statusHistory, most recent first
    rows,            \* rows[s]: the row list of sheet s
    cursorRowIndex,  \* cursorRowIndex[s]: the row cursor of sheet s
    selectedRows,    \* selectedRows[s]: the selected rows of sheet s, by identity
    joinSources,     \* SheetJoin.source: the list of source sheets
    jointype,        \* SheetJoin.jointype, "" before a join is built
    joinRows,        \* SheetJoin.rows, the combined rows
    freqSource,      \* the rows of the sheet a frequency table is built from
    freqBuilt,       \* "" before SheetFreqTable(sheet, col), then built or failed
    freqRows,        \* SheetFreqTable.rows
    drill,           \* the sheet opened by ENTER on the frequency table: the
                     \* bucket whose row list is its rows, and its row cursor;
                     \* << >> when no such sheet is open
    readonly,        \* options.readonly
    savedFiles,      \* the files written by saveSheet
    dictSource,      \* the mapping a SheetDict was opened on, key -> value
    edited,          \* edited[<< s, r >>]: the value setValue wrote into the
                     \* cursor column of row r of sheet s
    csv_header,      \* options.csv_header
    tsvSheet,        \* the sheet given to save_tsv: the names of its visible
                     \* columns and the display values of its rows
    tsvFile,         \* the file written by save_tsv, a sequence of characters
    tsvLoaded,       \* the sheet open_tsv makes of the file
    colValue,        \* colValue[c]: the cell of the cursor row in visible column c
    colType          \* colType[c]: the type of visible column c

vars == << pc, sheets, prefixes, ch, branch, debug, lastErrors, status,
           statusstr, statusHistory, rows, cursorRowIndex, selectedRows,
           joinSources, jointype, joinRows, freqSource, freqBuilt, freqRows,
           drill, readonly, savedFiles, dictSource, edited,
           csv_header, tsvSheet, tsvFile, tsvLoaded, colValue, colType >>

editVars == << readonly, savedFiles, dictSource, edited >>

appVars == << pc, sheets, prefixes, ch, branch, debug, lastErrors, status,
              statusstr, statusHistory, rows, cursorRowIndex, selectedRows,
              editVars >>

joinVars == << joinSources, jointype, joinRows >>

freqVars == << freqSource, freqBuilt, freqRows, drill >>

tsvVars == << csv_header, tsvSheet, tsvFile, tsvLoaded >>

typeVars == << colValue, colType >>

----------------------------------------------------------------------------
(* Bounds *)

\* number of Sheet objects: opened sources and their help sheets
NSheets == 4
\* failures that may be caught in one run
MaxFailures == 2
\* rows of the sheet whose rows are moved
MaxRows == 3

\* source sheets of a join
NSources == 2
\* rows of all the source sheets of a join together
MaxJoinRows == 3

\* failures caught in one run of the specification of the error history
MaxErrors == 12
\* status messages issued in the specification of the status history, and how
\* many of them Ctrl-P issues
MaxStatus == 102
MaxRepeats == 1
\* rows of the source sheet of a frequency table
MaxFreqRows == 4
\* rows of the source sheet of a frequency table on whose rows ENTER is pressed
MaxDrillRows == 2
\* visible columns and rows of the sheet that is saved as tab-separated text
MaxTsvCols == 2
MaxTsvRows == 2
\* visible columns of the sheet whose column types are detected
MaxTypeCols == 2

\* vd.lastErrors keeps the most recent 10
ErrKeep == 10
\* vd.statusHistory keeps the most recent 100
HistKeep == 100

----------------------------------------------------------------------------
(* Python list primitives, on 0-based indexes *)

Min(a, b) == IF a <= b THEN a ELSE b
Max(a, b) == IF a >= b THEN a ELSE b

\* the 0-based index list.pop(i) removes, or -1 when pop raises IndexError
PopIndex(L, i) ==
    LET j == IF i < 0 THEN i + Len(L) ELSE i
    IN  IF j >= 0 /\ j < Len(L) THEN j ELSE -1

\* the list after list.pop(i), for a valid i
ListPop(L, i) ==
    LET j == PopIndex(L, i)
    IN  SubSeq(L, 1, j) \o SubSeq(L, j + 2, Len(L))

\* the list after list.insert(i, r): a negative i counts from the end, and the
\* index is clamped into 0..len
ListInsert(L, i, r) ==
    LET j0 == IF i < 0 THEN i + Len(L) ELSE i
        j  == Max(0, Min(j0, Len(L)))
    IN  SubSeq(L, 1, j) \o << r >> \o SubSeq(L, j + 1, Len(L))

\* list.remove(x): removes the first element equal to x
ListRemove(L, x) ==
    LET i == CHOOSE k \in 1..Len(L) : L[k] = x /\ \A m \in 1..(k - 1) : L[m] # x
    IN  SubSeq(L, 1, i - 1) \o SubSeq(L, i + 1, Len(L))

Elems(L) == { L[i] : i \in 1..Len(L) }

\* moveListItem(L, fromidx, toidx): the list afterwards (fromidx valid)
moveListItem(L, fromidx, toidx) ==
    ListInsert(ListPop(L, fromidx), toidx, L[PopIndex(L, fromidx) + 1])

----------------------------------------------------------------------------
(* Sheets, status messages and the error history *)

\* the Sheet objects: the odd ones are opened from sources, and s+1 is the help
\* sheet of the odd sheet s
SheetIds == 1..NSheets
\* the SheetDict opened by Ctrl-O and the Sheets opened by Shift-S
DictSheet == NSheets + 1
SheetsSheet == NSheets + 2
AllSheets == SheetIds \cup { DictSheet, SheetsSheet }
SourceSheets == { s \in SheetIds : s % 2 = 1 }

\* CommandHelp(sheet) is memoized per sheet: the same help sheet every time
CommandHelp(sheet) == sheet + 1

\* a status message: its kind t, the key k and prefix p it names, a number n
Msg(t, k, p, n) == [t |-> t, k |-> k, p |-> p, n |-> n]

\* a status that overwrites the pending messages
StatusAdd_Overwrite(st, m) == << m >>

\* VisiData.status(s): appends to the pending messages
StatusAdd(st, m) == Append(st, m)

\* del L[n:]
FirstN(L, n) == IF Len(L) <= n THEN L ELSE SubSeq(L, 1, n)

\* a history that adds the message at the end and keeps the oldest
HistoryAdd_KeepOldest(h, m) == FirstN(Append(h, m), HistKeep)

\* VisiData.status(s): statusHistory.insert(0, strs); del statusHistory[100:]
HistoryAdd(h, m) == FirstN(<< m >> \o h, HistKeep)

\* sheet.commands[(p, k)]: the command string and the help string of a binding
cmdstr(p, k) == Msg("cmd", k, p, 0)
helpstr(p, k) == Msg("help", k, p, 0)

\* the number of failures caught so far (an error is named by its serial number)
FailCount == IF lastErrors = << >> THEN 0 ELSE lastErrors[Len(lastErrors)]

\* L[:n], the oldest n
LastN_Oldest(L, n) == IF Len(L) <= n THEN L ELSE SubSeq(L, 1, n)

\* L[-n:]
LastN(L, n) == IF Len(L) <= n THEN L ELSE SubSeq(L, Len(L) - n + 1, Len(L))

\* vd.lastErrors after exceptionCaught: append, keep the most recent ErrKeep
ErrorsCaught(errs) == LastN(Append(errs, FailCount + 1), ErrKeep)

\* vd._status after exceptionCaught(status=True): the failure's last line
StatusCaught(st) == StatusAdd(st, Msg("error", "", << >>, FailCount + 1))

\* push without the removal of the sheet already on the stack
push_NoDedupe(S, vs) == << vs >> \o S

\* VisiData.push(vs) on the stack S
push(S, vs) ==
    IF vs \in Elems(S) THEN << vs >> \o ListRemove(S, vs) ELSE << vs >> \o S

\* a cursor left where the command put it
checkCursor_NoClamp(c, n) == c

\* Sheet.checkCursor: the row cursor clamped into [0, n), 0 on an empty sheet
checkCursor(c, n) == IF c <= 0 THEN 0 ELSE IF c >= n THEN Max(0, n - 1) ELSE c

\* a sheet not on the stack and with no help sheet on the stack: a new Sheet object
FreshSheets == { s \in SourceSheets : s \notin Elems(sheets) /\ CommandHelp(s) \notin Elems(sheets) }
NewSheet == CHOOSE s \in FreshSheets : \A t \in FreshSheets : s <= t

----------------------------------------------------------------------------
(* The command table and the commands' actions *)

NoPrefix == << >>
G == << "g" >>

\* base_commands: the (prefix, key) pairs bound by setup_sheet_commands
base_commands ==
    { << NoPrefix, k >> : k \in { "F1", "q", "J", "K", "^D", "^E", "g", "^R", "o", "^^", "TAB", "BTAB",
                                  "j", "s", "u", "d", "r", "[", "]", "e", "^S", "^O",
                                  " ", "S" } }
    \cup { << G, k >> : k \in { "q", "J", "K", "j", "s", "u", "d", " " } }

\* sheet.commands: base_commands and what the class of the sheet binds; Sheets
\* binds ENTER
commands(sheet) ==
    base_commands \cup IF sheet = SheetsSheet THEN { << NoPrefix, "ENTER" >> } ELSE { }

\* the outcome of a command's action: how it ended (done, prefix, escape, fail)
\* and the state it left behind
Outcome(kind, arg, sh, dbg, rws, cur, msgs) ==
    [kind |-> kind, arg |-> arg, sheets |-> sh, debug |-> dbg, rows |-> rws,
     cur |-> cur, msgs |-> msgs, sel |-> selectedRows,
     files |-> savedFiles, dict |-> dictSource, edited |-> edited]

Done(sh, dbg, rws, cur, msgs) == Outcome("done", "", sh, dbg, rws, cur, msgs)
Fail(sh, dbg, rws, cur, msgs) == Outcome("fail", "", sh, dbg, rws, cur, msgs)

\* the rows a loader gives sheet s: sheet 1 holds MaxRows rows, every other
\* loaded sheet one row
LoadedRows(s) ==
    IF s = 1 THEN [i \in 1..MaxRows |-> i]
    ELSE IF s \in SheetIds THEN << 1 >>
    ELSE << >>

\* open_source(p) for the source of sheet s on stack S: the loader fails, or the
\* loaded sheet, a new Sheet with its rows and its cursor on the first row, is
\* pushed after status('opened ...').  The source of a help sheet is a Sheet,
\* on which '://' in p raises.
open_source(S, s, msgs) ==
    { Fail(S, debug, rows, cursorRowIndex, msgs) }
    \cup IF s \in SourceSheets
         THEN { Done(push(S, s), debug,
                     [rows EXCEPT ![s] = LoadedRows(s)],
                     [cursorRowIndex EXCEPT ![s] = 0],
                     msgs \o << Msg("opened", "", << >>, s) >>) }
         ELSE { }

\* Shift-J / Shift-K: cursorRowIndex = moveListItem(rows, cursorRowIndex, to)
MoveRowOne(sheet, to) ==
    LET c == cursorRowIndex[sheet]
        L == rows[sheet]
    IN  IF PopIndex(L, c) = -1
        THEN { Fail(sheets, debug, rows, cursorRowIndex, << >>) }
        ELSE { Done(sheets, debug, [rows EXCEPT ![sheet] = moveListItem(L, c, to)],
                    [cursorRowIndex EXCEPT ![sheet] = to], << >>) }

\* g Shift-J / g Shift-K: moveListItem(rows, cursorRowIndex, to), result dropped
MoveRowAll(sheet, to) ==
    LET c == cursorRowIndex[sheet]
        L == rows[sheet]
    IN  IF PopIndex(L, c) = -1
        THEN { Fail(sheets, debug, rows, cursorRowIndex, << >>) }
        ELSE { Done(sheets, debug, [rows EXCEPT ![sheet] = moveListItem(L, c, to)],
                    cursorRowIndex, << >>) }

\* Ctrl-R: open_source(vd.sheets.pop(0).source); status("reloaded")
Reload(sheet) ==
    { IF o.kind = "done"
      THEN [o EXCEPT !.msgs = Append(o.msgs, Msg("reloaded", "", << >>, 0))]
      ELSE o : o \in open_source(ListPop(sheets, 0), sheet, << >>) }

\* o: open_source(inputLine("open: ")): the prompt is cancelled, or the line is
\* echoed by editText and the source opened
OpenPrompt ==
    { Outcome("escape", "ESC", sheets, debug, rows, cursorRowIndex, << >>) }
    \cup IF FreshSheets = { }
         THEN { Fail(sheets, debug, rows, cursorRowIndex, << Msg("input", "", << >>, 0) >>) }
         ELSE open_source(sheets, NewSheet, << Msg("input", "", << >>, 0) >>)

\* Ctrl-^: vd.sheets[0], vd.sheets[1] = vd.sheets[1], vd.sheets[0]
SwapSheets ==
    IF Len(sheets) < 2
    THEN { Fail(sheets, debug, rows, cursorRowIndex, << >>) }
    ELSE { Done(<< sheets[2], sheets[1] >> \o SubSeq(sheets, 3, Len(sheets)),
                debug, rows, cursorRowIndex, << >>) }

\* F1: vd.push(CommandHelp(sheet)).  Help sheets of help sheets are left out:
\* the key is not pressed on a help sheet.
OpenHelp(sheet) ==
    IF sheet \in SourceSheets /\ CommandHelp(sheet) \in SheetIds
    THEN { Done(push(sheets, CommandHelp(sheet)), debug, rows, cursorRowIndex, << >>) }
    ELSE { }

\* the outcome o with the selection of the active sheet replaced
Selecting(o, sheet, sel) == [o EXCEPT !.sel = [selectedRows EXCEPT ![sheet] = sel]]

\* Sheet.cursorDown(n): the row cursor moved by n and clamped
cursorDown(c, n, nRows) == checkCursor(c + n, nRows)

\* Sheet.select(rs), Sheet.unselect(rs): the selection, a set of row identities
select(sel, rs) == sel \cup rs
unselect(sel, rs) == sel \ rs

\* Sheet.toggle(rs): the selected rows of rs unselected, the others selected
toggle(sel, rs) == (sel \ rs) \cup (rs \ sel)

\* an unselect-all that keeps the selection
UnselectAll_Keep(sel) == sel

\* _selectedRows = {}
UnselectAll(sel) == { }

\* cursorCol.getValue(r): the cell of row r in the cursor column; rows with an
\* odd identity hold 1 and the others 0
getValue(r) == r % 2

\* a descending sort that reverses the ascending one, and with it the order of
\* the elements with equal keys
sorted_Reversed(L, key, reverse) ==
    LET RECURSIVE Asc(_)
        Asc(n) ==
            IF n = 0 THEN << >>
            ELSE LET acc == Asc(n - 1)
                     x   == L[n]
                     k   == Len(SelectSeq(acc, LAMBDA e : key[e] <= key[x]))
                 IN  SubSeq(acc, 1, k) \o << x >> \o SubSeq(acc, k + 1, Len(acc))
        up == Asc(Len(L))
    IN  IF reverse THEN [i \in 1..Len(up) |-> up[Len(up) + 1 - i]] ELSE up

\* sorted(L, key=..., reverse=...): Python's stable sort, as an insertion sort
\* that puts each element behind the elements it does not strictly precede
sorted(L, key, reverse) ==
    LET Precedes(a, b) == IF reverse THEN key[a] > key[b] ELSE key[a] < key[b]
        RECURSIVE SortedUpTo(_)
        SortedUpTo(n) ==
            IF n = 0 THEN << >>
            ELSE LET acc == SortedUpTo(n - 1)
                     x   == L[n]
                     k   == Len(SelectSeq(acc, LAMBDA e : ~Precedes(x, e)))
                 IN  SubSeq(acc, 1, k) \o << x >> \o SubSeq(acc, k + 1, Len(acc))
    IN  SortedUpTo(Len(L))

\* j: cursorDown(+1)
CursorDownOne(sheet) ==
    { Done(sheets, debug, rows,
           [cursorRowIndex EXCEPT ![sheet] = cursorDown(@, 1, Len(rows[sheet]))], << >>) }

\* s / u: select([cursorRow]); cursorDown(1) / unselect([cursorRow]); cursorDown(1).
\* cursorRow raises on a sheet without rows.
SelectRow(sheet, on) ==
    LET c == cursorRowIndex[sheet]
        L == rows[sheet]
    IN  IF PopIndex(L, c) = -1
        THEN { Fail(sheets, debug, rows, cursorRowIndex, << >>) }
        ELSE { Selecting(Done(sheets, debug, rows,
                              [cursorRowIndex EXCEPT ![sheet] = cursorDown(c, 1, Len(L))],
                              << >>),
                         sheet,
                         IF on THEN select(selectedRows[sheet], { L[c + 1] })
                         ELSE unselect(selectedRows[sheet], { L[c + 1] })) }

\* space: toggle([cursorRow]); cursorDown(1)
ToggleRow(sheet) ==
    LET c == cursorRowIndex[sheet]
        L == rows[sheet]
    IN  IF PopIndex(L, c) = -1
        THEN { Fail(sheets, debug, rows, cursorRowIndex, << >>) }
        ELSE { Selecting(Done(sheets, debug, rows,
                              [cursorRowIndex EXCEPT ![sheet] = cursorDown(c, 1, Len(L))],
                              << >>),
                         sheet, toggle(selectedRows[sheet], { L[c + 1] })) }

\* g space: toggle(rows)
ToggleAll(sheet) ==
    { Selecting(Done(sheets, debug, rows, cursorRowIndex, << >>),
                sheet, toggle(selectedRows[sheet], Elems(rows[sheet]))) }

\* d: rows.pop(cursorRowIndex)
DeleteRow(sheet) ==
    LET c == cursorRowIndex[sheet]
        L == rows[sheet]
    IN  IF PopIndex(L, c) = -1
        THEN { Fail(sheets, debug, rows, cursorRowIndex, << >>) }
        ELSE { Done(sheets, debug, [rows EXCEPT ![sheet] = ListPop(L, c)],
                    cursorRowIndex, << >>) }

\* the row numbers typed at the prompt of r
GotoRows == -1..MaxRows

\* r: cursorRowIndex = int(inputLine("goto row number: ")): the prompt is
\* cancelled, or the line is echoed by editText and is a number or is not
GotoRow(sheet) ==
    { Outcome("escape", "ESC", sheets, debug, rows, cursorRowIndex, << >>),
      Fail(sheets, debug, rows, cursorRowIndex, << Msg("input", "", << >>, 0) >>) }
    \cup { Done(sheets, debug, rows, [cursorRowIndex EXCEPT ![sheet] = v],
                << Msg("input", "", << >>, 0) >>) : v \in GotoRows }

\* [ / ]: rows = sorted(rows, key=lambda r: cursorCol.getValue(r)[, reverse=True])
SortRows(sheet, reverse) ==
    LET L == rows[sheet]
    IN  { Done(sheets, debug,
               [rows EXCEPT ![sheet] = sorted(L, [r \in Elems(L) |-> getValue(r)], reverse)],
               cursorRowIndex, << >>) }

\* g j: cursorRowIndex = len(rows)
GotoBottom(sheet) ==
    { Done(sheets, debug, rows,
           [cursorRowIndex EXCEPT ![sheet] = Len(rows[sheet])], << >>) }

\* g s: select(rows)
SelectAll(sheet) ==
    { Selecting(Done(sheets, debug, rows, cursorRowIndex, << >>),
                sheet, select(selectedRows[sheet], Elems(rows[sheet]))) }

\* g u: _selectedRows = {}
UnselectRows(sheet) ==
    { Selecting(Done(sheets, debug, rows, cursorRowIndex, << >>),
                sheet, UnselectAll(selectedRows[sheet])) }

\* g d: rows = [r for r in rows if not isSelected(r)]; _selectedRows = {}
DeleteSelected(sheet) ==
    { Selecting(Done(sheets, debug,
                     [rows EXCEPT ![sheet] =
                         SelectSeq(@, LAMBDA r : r \notin selectedRows[sheet])],
                     cursorRowIndex, << >>),
                sheet, UnselectAll(selectedRows[sheet])) }

\* the keys of the mapping a SheetDict shows, in the order of mapping.items(),
\* and the values editCell returns
DictKeyList == << "a", "b" >>
DictKeys == Elems(DictKeyList)
DictValues == { 0, 1 }

\* the file names typed at the prompt of Ctrl-S
FileNames == { "out.tsv" }

\* the outcome o with the files, the mapping and the edited cells it leaves
Writing(o, files, dict, ed) == [o EXCEPT !.files = files, !.dict = dict, !.edited = ed]

\* the edited cells after cell c has been set to v
CellSet(ed, c, v) == [x \in DOMAIN ed \cup { c } |-> IF x = c THEN v ELSE ed[x]]

\* Column.setValue(row, v) on the cursor column of row r: ReadOnlyError when the
\* column has no setter or options.readonly is set, else the cell is written
setValue(sheet, r, v) ==
    { Fail(sheets, debug, rows, cursorRowIndex, << >>) }
    \cup IF readonly THEN { }
         ELSE { Writing(Done(sheets, debug, rows, cursorRowIndex, << >>),
                        savedFiles, dictSource, CellSet(edited, << sheet, r >>, v)) }

\* e: cursorCol.setValue(cursorRow, editCell(cursorVisibleColIndex)).  cursorRow
\* raises on a sheet without rows; editCell is cancelled or returns a value.
EditCell(sheet) ==
    LET c == cursorRowIndex[sheet]
        L == rows[sheet]
    IN  IF PopIndex(L, c) = -1
        THEN { Fail(sheets, debug, rows, cursorRowIndex, << >>) }
        ELSE { Outcome("escape", "ESC", sheets, debug, rows, cursorRowIndex, << >>) }
             \cup UNION { setValue(sheet, L[c + 1], v) : v \in DictValues }

\* SheetDict.rows = list(list(x) for x in mapping.items())
DictItems(mapping) == [i \in 1..Len(DictKeyList) |-> << DictKeyList[i], mapping[DictKeyList[i]] >>]

\* e on a SheetDict: source[cursorRow[0]] = cursorRow[1] = editCell(1)
EditDict(sheet) ==
    LET c == cursorRowIndex[sheet]
        L == rows[sheet]
    IN  { Outcome("escape", "ESC", sheets, debug, rows, cursorRowIndex, << >>) }
        \cup IF PopIndex(L, c) = -1
             THEN { Fail(sheets, debug, rows, cursorRowIndex, << >>) }
             ELSE { Writing(Done(sheets, debug,
                                 [rows EXCEPT ![sheet][c + 1] = << L[c + 1][1], v >>],
                                 cursorRowIndex, << >>),
                            savedFiles, [dictSource EXCEPT ![L[c + 1][1]] = v], edited)
                    : v \in DictValues }

\* saveSheet(sheet, fn): in readonly mode a status and nothing else; else the
\* saver writes the file, or fails to
saveSheet(fn, msgs) ==
    IF readonly
    THEN { Done(sheets, debug, rows, cursorRowIndex,
                msgs \o << Msg("readonly mode", "", << >>, 0) >>) }
    ELSE { Fail(sheets, debug, rows, cursorRowIndex, msgs),
           Writing(Done(sheets, debug, rows, cursorRowIndex,
                        msgs \o << Msg("saved to", fn, << >>, 0) >>),
                   savedFiles \cup { fn }, dictSource, edited) }

\* Ctrl-S: saveSheet(sheet, inputLine("save to: ")): the prompt is cancelled, or
\* the line is echoed by editText and the sheet saved to it
SavePrompt ==
    { Outcome("escape", "ESC", sheets, debug, rows, cursorRowIndex, << >>) }
    \cup UNION { saveSheet(fn, << Msg("input", "", << >>, 0) >>) : fn \in FileNames }

\* Ctrl-O: expr = inputLine("eval: "); pushPyObjSheet(expr, eval(expr)): the
\* prompt is cancelled, eval raises, or the expression names the mapping and a
\* new SheetDict on it is pushed.  One SheetDict is on the stack at a time.
EvalPrompt ==
    { Outcome("escape", "ESC", sheets, debug, rows, cursorRowIndex, << >>),
      Fail(sheets, debug, rows, cursorRowIndex, << Msg("input", "", << >>, 0) >>) }
    \cup IF DictSheet \in Elems(sheets) THEN { }
         ELSE { Done(push(sheets, DictSheet), debug,
                     [rows EXCEPT ![DictSheet] = DictItems(dictSource)],
                     [cursorRowIndex EXCEPT ![DictSheet] = 0],
                     << Msg("input", "", << >>, 0) >>) }

\* a cycle that moves the head sheet behind the second sheet
Cycle_ToSecond(S) == moveListItem(S, 0, 1)

\* TAB: moveListItem(vd.sheets, 0, len(vd.sheets))
Cycle(S) == moveListItem(S, 0, Len(S))

\* BTAB: moveListItem(vd.sheets, -1, 0)
ReverseCycle(S) == moveListItem(S, -1, 0)

\* Sheets.rows = vd().sheets: the rows of the Sheets sheet are the stack itself,
\* whatever becomes of the stack.  The commands that change the rows of the
\* active sheet are not executed on the Sheets sheet.
Aliased(S, rws) == [rws EXCEPT ![SheetsSheet] = S]

\* Shift-S: vd.push(Sheets(vd.sheets)), a new Sheets with its cursor on its
\* first row.  One Sheets sheet is on the stack at a time.
OpenSheets ==
    IF SheetsSheet \in Elems(sheets) THEN { }
    ELSE { Done(push(sheets, SheetsSheet), debug, rows,
                [cursorRowIndex EXCEPT ![SheetsSheet] = 0], << >>) }

\* ENTER on the Sheets sheet: moveListItem(vd.sheets, cursorRowIndex, 0);
\* vd.sheets.pop(1)
GotoSheet(sheet) ==
    LET c == cursorRowIndex[sheet]
    IN  IF PopIndex(sheets, c) = -1
        THEN { Fail(sheets, debug, rows, cursorRowIndex, << >>) }
        ELSE LET moved == moveListItem(sheets, c, 0)
             IN  IF PopIndex(moved, 1) = -1
                 THEN { Fail(moved, debug, rows, cursorRowIndex, << >>) }
                 ELSE { Done(ListPop(moved, 1), debug, rows, cursorRowIndex, << >>) }

\* Sheet.exec_command: the outcomes of the action bound to (p, k) on the active sheet
exec_command(p, k) ==
    LET sheet == Head(sheets)
        c     == cursorRowIndex[sheet]
        nRows == Len(rows[sheet])
        cmd   == << p, k >>
    IN  CASE cmd = << NoPrefix, "F1" >> -> OpenHelp(sheet)
          [] cmd = << NoPrefix, "q" >> ->
               { Done(ListPop(sheets, 0), debug, rows, cursorRowIndex, << >>) }
          [] cmd = << NoPrefix, "J" >> -> MoveRowOne(sheet, Min(c + 1, nRows - 1))
          [] cmd = << NoPrefix, "K" >> -> MoveRowOne(sheet, Max(c - 1, 0))
          [] cmd = << NoPrefix, "^D" >> ->
               { Done(sheets, ~debug, rows, cursorRowIndex,
                      << Msg("debug", "", << >>, IF debug THEN 0 ELSE 1) >>) }
          [] cmd = << NoPrefix, "^E" >> ->
               { Fail(sheets, TRUE, rows, cursorRowIndex, << >>) }
          [] cmd = << NoPrefix, "g" >> ->
               { Outcome("prefix", "g", sheets, debug, rows, cursorRowIndex, << >>) }
          [] cmd = << NoPrefix, "^R" >> -> Reload(sheet)
          [] cmd = << NoPrefix, "o" >> -> OpenPrompt
          [] cmd = << NoPrefix, "^^" >> -> SwapSheets
          [] cmd = << NoPrefix, "TAB" >> ->
               { Done(Cycle(sheets), debug, rows, cursorRowIndex, << >>) }
          [] cmd = << NoPrefix, "BTAB" >> ->
               { Done(ReverseCycle(sheets), debug, rows, cursorRowIndex, << >>) }
          [] cmd = << G, "q" >> ->
               { Done(<< >>, debug, rows, cursorRowIndex, << >>) }
          [] cmd = << G, "J" >> -> MoveRowAll(sheet, nRows)
          [] cmd = << G, "K" >> -> MoveRowAll(sheet, 0)
          [] cmd = << NoPrefix, "j" >> -> CursorDownOne(sheet)
          [] cmd = << NoPrefix, "s" >> -> SelectRow(sheet, TRUE)
          [] cmd = << NoPrefix, "u" >> -> SelectRow(sheet, FALSE)
          [] cmd = << NoPrefix, "d" >> -> DeleteRow(sheet)
          [] cmd = << NoPrefix, "r" >> -> GotoRow(sheet)
          [] cmd = << NoPrefix, "[" >> -> SortRows(sheet, FALSE)
          [] cmd = << NoPrefix, "]" >> -> SortRows(sheet, TRUE)
          [] cmd = << G, "j" >> -> GotoBottom(sheet)
          [] cmd = << G, "s" >> -> SelectAll(sheet)
          [] cmd = << G, "u" >> -> UnselectRows(sheet)
          [] cmd = << G, "d" >> -> DeleteSelected(sheet)
          [] cmd = << NoPrefix, " " >> -> ToggleRow(sheet)
          [] cmd = << G, " " >> -> ToggleAll(sheet)
          [] cmd = << NoPrefix, "S" >> -> OpenSheets
          [] cmd = << NoPrefix, "ENTER" >> -> GotoSheet(sheet)
          [] cmd = << NoPrefix, "e" >> ->
               IF sheet = DictSheet THEN EditDict(sheet) ELSE EditCell(sheet)
          [] cmd = << NoPrefix, "^S" >> -> SavePrompt
          [] cmd = << NoPrefix, "^O" >> -> EvalPrompt

----------------------------------------------------------------------------
(* The application loop: VisiData.run *)

\* no file written, no cell edited, the mapping as it was made
NothingEdited ==
    /\ savedFiles = { }
    /\ dictSource = [k \in DictKeys |-> 0]
    /\ edited = << >>

\* no file written by save_tsv, no sheet made by open_tsv
NoFile == [saved |-> FALSE, text |-> << >>]
NotLoaded == [state |-> "none", names |-> << >>, rows |-> << >>]

\* no sheet saved or loaded
NothingSaved ==
    /\ csv_header = FALSE
    /\ tsvSheet = [names |-> << >>, rows |-> << >>]
    /\ tsvFile = NoFile
    /\ tsvLoaded = NotLoaded

\* no column of which the type is detected
NothingDetected ==
    /\ colValue = << >>
    /\ colType = << >>

\* The state after construction: VisiData.__init__ queues the initial status;
\* no sheet is open and no join has been built.  Sheet 1 holds MaxRows rows,
\* every other sheet one row.
Constructed ==
    /\ pc = "start"
    /\ sheets = << >>
    /\ prefixes = << >>
    /\ ch = "SPACE"
    /\ branch = "start"
    /\ debug = FALSE
    /\ lastErrors = << >>
    /\ status = << Msg("initial", "", << >>, 0) >>
    /\ statusstr = << >>
    /\ statusHistory = << Msg("initial", "", << >>, 0) >>
    /\ rows = [s \in AllSheets |-> LoadedRows(s)]
    /\ cursorRowIndex = [s \in AllSheets |-> 0]
    /\ selectedRows = [s \in AllSheets |-> { }]
    /\ joinSources = << >>
    /\ jointype = ""
    /\ joinRows = << >>
    /\ freqSource = << >>
    /\ freqBuilt = ""
    /\ freqRows = << >>
    /\ drill = << >>
    /\ NothingEdited

\* options.readonly is off unless the caller of run has set it
Init == Constructed /\ readonly = FALSE /\ NothingSaved /\ NothingDetected

\* the state after construction with options.readonly set or not
InitEdit == Constructed /\ readonly \in BOOLEAN /\ NothingSaved /\ NothingDetected

\* before run(): a source named on the command line is opened and pushed
Open ==
    /\ pc = "start"
    /\ FreshSheets # { }
    /\ sheets' = push(sheets, NewSheet)
    /\ status' = StatusAdd(status, Msg("opened", "", << >>, NewSheet))
    /\ rows' = Aliased(sheets', rows)
    /\ UNCHANGED << pc, prefixes, ch, branch, debug, lastErrors, cursorRowIndex >>
    /\ UNCHANGED statusstr
    /\ UNCHANGED << selectedRows, statusHistory, editVars, joinVars, freqVars, tsvVars, typeVars >>

\* run() is entered: ch = 32, prefixes = ''
Run ==
    /\ pc = "start"
    /\ pc' = "loop"
    /\ ch' = "SPACE"
    /\ prefixes' = << >>
    /\ UNCHANGED << sheets, branch, debug, lastErrors, status, rows, cursorRowIndex >>
    /\ UNCHANGED statusstr
    /\ UNCHANGED << selectedRows, statusHistory, editVars, joinVars, freqVars, tsvVars, typeVars >>

\* an exit test that also leaves with one sheet left
NoMoreSheets_AtMostOne == Len(sheets) <= 1

\* the loop's exit test: whether run returns at the top of an iteration
NoMoreSheets == sheets = << >>

\* an exit test that goes around the loop again
Terminate_Blocks ==
    /\ pc = "loop"
    /\ NoMoreSheets
    /\ pc' = "loop"
    /\ branch' = "draw"
    /\ UNCHANGED << sheets, prefixes, ch, debug, lastErrors, status, rows, cursorRowIndex >>
    /\ UNCHANGED statusstr
    /\ UNCHANGED << selectedRows, statusHistory, editVars, joinVars, freqVars, tsvVars, typeVars >>

\* top of the loop with no more sheets: run returns
Terminate ==
    /\ pc = "loop"
    /\ NoMoreSheets
    /\ pc' = "returned"
    /\ branch' = "return"
    /\ UNCHANGED << sheets, prefixes, ch, debug, lastErrors, status, rows, cursorRowIndex >>
    /\ UNCHANGED statusstr
    /\ UNCHANGED << selectedRows, statusHistory, editVars, joinVars, freqVars, tsvVars, typeVars >>

\* the pending messages when the active sheet is about to be drawn
StatusBeforeDraw ==
    IF Len(rows[Head(sheets)]) = 0
    THEN StatusAdd(status, Msg("no rows", "", << >>, 0))
    ELSE status

\* options.ch_StatusSep between two messages of the status line
StatusSep == Msg("sep", "", << >>, 0)

\* sep.join(L)
join(sep, L) ==
    IF L = << >> THEN << >>
    ELSE [i \in 1..(2 * Len(L) - 1) |-> IF i % 2 = 1 THEN L[(i + 1) \div 2] ELSE sep]

\* drawLeftStatus: statusstr = SheetNameFmt % sheet.name + ch_StatusSep.join(_status)
StatusLine(sheet, st) == << Msg("name", "", << >>, sheet) >> \o join(StatusSep, st)

\* one iteration up to getch: the sheet is drawn, drawLeftStatus shows and
\* clears the pending messages
Draw ==
    /\ pc = "loop"
    /\ ~NoMoreSheets
    /\ status' = << >>
    /\ pc' = "getch"
    /\ branch' = "draw"
    /\ UNCHANGED << sheets, prefixes, ch, debug, lastErrors, rows, cursorRowIndex >>
    /\ statusstr' = StatusLine(Head(sheets), StatusBeforeDraw)
    /\ UNCHANGED << selectedRows, statusHistory, editVars, joinVars, freqVars, tsvVars, typeVars >>

\* where run continues after exceptionCaught: it re-raises in debug mode
AfterCaught(dbg, next) == IF dbg THEN "raised" ELSE next

\* one iteration up to getch, sheet.draw raising, while fewer than limit
\* failures have been caught
DrawFailsUpTo(limit) ==
    /\ pc = "loop"
    /\ ~NoMoreSheets
    /\ FailCount < limit
    /\ lastErrors' = ErrorsCaught(lastErrors)
    /\ pc' = AfterCaught(debug, "getch")
    /\ status' = IF pc' = "raised" THEN StatusCaught(StatusBeforeDraw) ELSE << >>
    /\ branch' = "drawfail"
    /\ UNCHANGED << sheets, prefixes, ch, debug, rows, cursorRowIndex >>
    /\ statusstr' = IF pc' = "raised" THEN << >>
                    ELSE StatusLine(Head(sheets), StatusCaught(StatusBeforeDraw))
    /\ UNCHANGED << selectedRows, statusHistory, editVars, joinVars, freqVars, tsvVars, typeVars >>

DrawFails == DrawFailsUpTo(MaxFailures)

\* sheet.checkCursor() at the end of an iteration, on the sheet that was active
\* when the iteration began
CursorsChecked(sheet, rws, cur) ==
    [cur EXCEPT ![sheet] = checkCursor(cur[sheet], Len(rws[sheet]))]

\* getch returns KEY_RESIZE
Resize ==
    /\ pc = "getch"
    /\ ch' = "KEY_RESIZE"
    /\ branch' = "resize"
    /\ pc' = "loop"
    /\ cursorRowIndex' = CursorsChecked(Head(sheets), rows, cursorRowIndex)
    /\ UNCHANGED << sheets, prefixes, debug, lastErrors, status, rows >>
    /\ statusstr' = << >>
    /\ UNCHANGED << selectedRows, statusHistory, editVars, joinVars, freqVars, tsvVars, typeVars >>

\* getch returns KEY_MOUSE: the cursor goes to row topRowIndex+y-1 = v
Mouse(v) ==
    /\ pc = "getch"
    /\ ch' = "KEY_MOUSE"
    /\ branch' = "mouse"
    /\ pc' = "loop"
    /\ cursorRowIndex' = CursorsChecked(Head(sheets), rows,
                            [cursorRowIndex EXCEPT ![Head(sheets)] = v])
    /\ UNCHANGED << sheets, prefixes, debug, lastErrors, status, rows >>
    /\ statusstr' = << >>
    /\ UNCHANGED << selectedRows, statusHistory, editVars, joinVars, freqVars, tsvVars, typeVars >>

\* getch returns KEY_MOUSE and curses.getmouse() raises
MouseFails ==
    /\ pc = "getch"
    /\ FailCount < MaxFailures
    /\ ch' = "KEY_MOUSE"
    /\ branch' = "mousefail"
    /\ lastErrors' = ErrorsCaught(lastErrors)
    /\ status' = StatusCaught(status)
    /\ pc' = AfterCaught(debug, "loop")
    /\ cursorRowIndex' = IF pc' = "raised" THEN cursorRowIndex
                         ELSE CursorsChecked(Head(sheets), rows, cursorRowIndex)
    /\ UNCHANGED << sheets, prefixes, debug, rows >>
    /\ statusstr' = << >>
    /\ UNCHANGED << selectedRows, statusHistory, editVars, joinVars, freqVars, tsvVars, typeVars >>

\* a lookup that ignores the accumulated prefix
LookupKey_NoPrefix(p, k) == << << >>, k >>

\* the key under which (prefixes, ch) is looked up in sheet.commands
LookupKey(p, k) == << p, k >>

\* the prefix after a prefix-accumulation signal: prefixes += str(e)
PrefixAdded(p, c) == p \o << c >>

\* the prefix after any other outcome of a keystroke: prefixes = ''
PrefixCleared == << >>

\* getch returns key k, bound in sheet.commands: the action is executed and its
\* outcome handled; it fails only while fewer than limit failures have been
\* caught
CommandUpTo(k, limit) ==
    /\ pc = "getch"
    /\ LookupKey(prefixes, k) \in commands(Head(sheets))
    /\ ch' = k
    /\ \E o \in exec_command(LookupKey(prefixes, k)[1], LookupKey(prefixes, k)[2]) :
         /\ o.kind = "fail" => FailCount < limit
         /\ branch' = o.kind
         /\ sheets' = o.sheets
         /\ debug' = o.debug
         /\ rows' = Aliased(o.sheets, o.rows)
         /\ prefixes' = IF o.kind = "prefix" THEN PrefixAdded(prefixes, o.arg)
                        ELSE PrefixCleared
         /\ lastErrors' = IF o.kind = "fail" THEN ErrorsCaught(lastErrors) ELSE lastErrors
         /\ pc' = IF o.kind = "fail" THEN AfterCaught(o.debug, "loop") ELSE "loop"
         /\ status' =
              CASE o.kind = "escape" ->
                     StatusAdd(status \o o.msgs, Msg("key", o.arg, << >>, 0))
                [] o.kind = "fail" /\ pc' = "raised" ->
                     StatusCaught(status \o o.msgs)
                [] o.kind = "fail" /\ pc' # "raised" ->
                     StatusAdd(StatusCaught(status \o o.msgs), cmdstr(prefixes, k))
                [] OTHER -> status \o o.msgs
         /\ cursorRowIndex' = IF pc' = "raised" THEN o.cur
                              ELSE CursorsChecked(Head(sheets), Aliased(o.sheets, o.rows), o.cur)
         /\ selectedRows' = o.sel
         /\ savedFiles' = o.files
         /\ dictSource' = o.dict
         /\ edited' = o.edited
    /\ statusstr' = << >>
    /\ UNCHANGED << statusHistory, readonly, joinVars, freqVars, tsvVars, typeVars >>

Command(k) == CommandUpTo(k, MaxFailures)

\* getch returns key k with no binding for (prefixes, k): the prefix is cleared,
\* then the message is formatted with the cleared prefix
NoCommand(k) ==
    /\ pc = "getch"
    /\ LookupKey(prefixes, k) \notin commands(Head(sheets))
    /\ ch' = k
    /\ branch' = "nocmd"
    /\ prefixes' = PrefixCleared
    /\ status' = StatusAdd(status, Msg("nocmd", k, prefixes', 0))
    /\ pc' = "loop"
    /\ cursorRowIndex' = CursorsChecked(Head(sheets), rows, cursorRowIndex)
    /\ UNCHANGED << sheets, debug, lastErrors, rows >>
    /\ statusstr' = << >>
    /\ UNCHANGED << selectedRows, statusHistory, editVars, joinVars, freqVars, tsvVars, typeVars >>

\* the keys pressed in the stack specification and in the row specification
StackKeys == { "F1", "q", "^D", "^E", "g", "^R", "o", "^^", "TAB", "BTAB", "x" }
RowKeys == { "J", "K", "g", "x", "j", "s", "u", "d", "r", "[", "]", " " }
\* q, and Ctrl-^, which fails on a stack of one sheet
ErrorKeys == { "q", "^^" }

\* the cursor rows a pointer event can ask for
MouseRows == -1..MaxRows

Next ==
    \/ Open
    \/ Run
    \/ Terminate
    \/ Draw
    \/ DrawFails
    \/ Resize
    \/ \E v \in MouseRows : Mouse(v)
    \/ MouseFails
    \/ \E k \in StackKeys : Command(k)
    \/ \E k \in StackKeys : NoCommand(k)

Spec == Init /\ [][Next]_vars

NextRows ==
    \/ Open
    \/ Run
    \/ Terminate
    \/ Draw
    \/ \E v \in MouseRows : Mouse(v)
    \/ \E k \in RowKeys : Command(k)
    \/ \E k \in RowKeys : NoCommand(k)

SpecRows == Init /\ [][NextRows]_vars

\* the loop with draws and commands that fail, up to MaxErrors failures
NextErrors ==
    \/ Open
    \/ Run
    \/ Terminate
    \/ Draw
    \/ DrawFailsUpTo(MaxErrors)
    \/ \E k \in ErrorKeys : CommandUpTo(k, MaxErrors)

SpecErrors == Init /\ [][NextErrors]_vars

\* the keys pressed in the specification of quitting
QuitKeys == { "q", "g", "F1", "TAB", "o" }

NextQuit ==
    \/ Open
    \/ Run
    \/ Terminate
    \/ Draw
    \/ \E k \in QuitKeys : Command(k)
    \/ \E k \in QuitKeys : NoCommand(k)

\* run is sequential code: at its exit test it does not wait, whereas a key is
\* pressed only if the user presses one
SpecQuit == Init /\ [][NextQuit]_vars /\ WF_vars(Terminate)

\* the keys pressed in the specification of the Sheets sheet
SheetsKeys == { "S", "ENTER", "j", "q" }

NextSheets ==
    \/ Open
    \/ Run
    \/ Terminate
    \/ Draw
    \/ \E k \in SheetsKeys : Command(k)
    \/ \E k \in SheetsKeys : NoCommand(k)

SpecSheets == Init /\ [][NextSheets]_vars

\* the keys pressed in the specification of saving and editing
EditKeys == { "e", "^S", "^O", "q" }

NextEdit ==
    \/ Open
    \/ Run
    \/ Terminate
    \/ Draw
    \/ \E k \in EditKeys : Command(k)

SpecEdit == InitEdit /\ [][NextEdit]_vars

----------------------------------------------------------------------------
(* The status history: VisiData.status and Ctrl-P *)

\* the messages issued so far that were not issued before, and those that
\* Ctrl-P issued again; before the first draw vd._status holds every message
FreshIssued == Cardinality({ status[i].n : i \in 1..Len(status) }) - 1
Repeated == Len(status) - 1 - FreshIssued

\* VisiData.status(s) with a message s not issued before
Status ==
    /\ Len(status) < MaxStatus
    /\ LET m == Msg("text", "", << >>, FreshIssued + 1)
       IN  /\ status' = StatusAdd(status, m)
           /\ statusHistory' = HistoryAdd(statusHistory, m)
    /\ UNCHANGED << pc, sheets, prefixes, ch, branch, debug, lastErrors, rows,
                    cursorRowIndex, selectedRows >>
    /\ UNCHANGED << statusstr, editVars, joinVars, freqVars, tsvVars, typeVars >>

\* Ctrl-P: status(vd.statusHistory[0])
ShowPrevious ==
    /\ Len(status) < MaxStatus
    /\ Repeated < MaxRepeats
    /\ LET m == statusHistory[1]
       IN  /\ status' = StatusAdd(status, m)
           /\ statusHistory' = HistoryAdd(statusHistory, m)
    /\ UNCHANGED << pc, sheets, prefixes, ch, branch, debug, lastErrors, rows,
                    cursorRowIndex, selectedRows >>
    /\ UNCHANGED << statusstr, editVars, joinVars, freqVars, tsvVars, typeVars >>

NextHistory == Status \/ ShowPrevious

SpecHistory == Init /\ [][NextHistory]_vars

----------------------------------------------------------------------------
(* The join engine: SheetJoin.reload *)

\* A source sheet is [nKeys, rows]; a row is [id, k, falsy]: its place in the
\* load order of its sheet, the value of its key cell, and whether it is falsy
\* as a Python object (an empty list or string is).  The sheets have one key
\* column at most.
KeyWidths == { 0, 1 }
KeyValues == { 1, 2 }

\* None, which dict.get returns for a missing key
None == [id |-> 0, k |-> 0, falsy |-> TRUE]

\* bool(x) of a row or None
Truthy(x) == ~x.falsy

\* tuple(c.getValue(r) for c in vs.keyCols)
KeyOf(vs, r) == IF vs.nKeys = 0 THEN << >> ELSE << r.k >>

\* a dict, as a function on its keys
EmptyDict == [x \in { } |-> None]

\* a store that keeps the row already held under the key
DictSet_KeepFirst(d, key, r) ==
    IF key \in DOMAIN d THEN d
    ELSE [x \in (DOMAIN d) \cup { key } |-> IF x = key THEN r ELSE d[x]]

\* d[key] = r
DictSet(d, key, r) ==
    [x \in (DOMAIN d) \cup { key } |-> IF x = key THEN r ELSE d[x]]

\* d.get(key)
DictGet(d, key) == IF key \in DOMAIN d THEN d[key] ELSE None

\* rowsBySheetKey[vs] after the first n rows of vs have been stored
RECURSIVE KeyMap(_, _)
KeyMap(vs, n) ==
    IF n = 0 THEN EmptyDict
    ELSE DictSet(KeyMap(vs, n - 1), KeyOf(vs, vs.rows[n]), vs.rows[n])

rowsBySheetKey(vs) == KeyMap(vs, Len(vs.rows))

\* the keys of the rows of the first i sources, in the order of the second loop
RECURSIVE KeysInOrder(_, _)
KeysInOrder(srcs, i) ==
    IF i = 0 THEN << >>
    ELSE KeysInOrder(srcs, i - 1)
         \o [j \in 1..Len(srcs[i].rows) |-> KeyOf(srcs[i], srcs[i].rows[j])]

\* [key] + [rowsBySheetKey[vs2].get(key) for vs2 in sheets]
combinedRow(srcs, key) ==
    [key |-> key,
     slots |-> [i \in 1..Len(srcs) |-> DictGet(rowsBySheetKey(srcs[i]), key)]]

\* rowsByKey after the first n keys: a key not seen yet adds its combined row
RECURSIVE RowsByKeyUpTo(_, _, _)
RowsByKeyUpTo(srcs, keys, n) ==
    IF n = 0 THEN << >>
    ELSE LET acc == RowsByKeyUpTo(srcs, keys, n - 1)
         IN  IF \E c \in Elems(acc) : c.key = keys[n] THEN acc
             ELSE Append(acc, combinedRow(srcs, keys[n]))

rowsByKey(srcs) ==
    LET keys == KeysInOrder(srcs, Len(srcs))
    IN  RowsByKeyUpTo(srcs, keys, Len(keys))

\* all(combinedRow): the key tuple and every slot are truthy
AllTruthy(c) == c.key # << >> /\ \A i \in 1..Len(c.slots) : Truthy(c.slots[i])

\* the filter of the join type on a combined row
Kept(jt, c) ==
    CASE jt = "&" -> AllTruthy(c)
      [] jt = "+" -> Truthy(c.slots[1])
      [] jt = "*" -> TRUE
      [] jt = "~" -> ~AllTruthy(c)

\* SheetJoin.rows after reload()
reload(srcs, jt) == SelectSeq(rowsByKey(srcs), LAMBDA c : Kept(jt, c))

JoinTypes == { "&", "+", "*", "~" }

\* rows loaded into all the sources so far
TotalRows ==
    LET RECURSIVE Sum(_)
        Sum(i) == IF i = 0 THEN 0 ELSE Sum(i - 1) + Len(joinSources[i].rows)
    IN  Sum(Len(joinSources))

\* The sources of a join: NSources sheets, each with its number of key columns
\* and no row loaded yet; the application loop is not running.
InitJoin ==
    /\ pc = "start"
    /\ sheets = << >>
    /\ prefixes = << >>
    /\ ch = "SPACE"
    /\ branch = "start"
    /\ debug = FALSE
    /\ lastErrors = << >>
    /\ status = << Msg("initial", "", << >>, 0) >>
    /\ statusstr = << >>
    /\ statusHistory = << Msg("initial", "", << >>, 0) >>
    /\ rows = [s \in AllSheets |-> << >>]
    /\ cursorRowIndex = [s \in AllSheets |-> 0]
    /\ selectedRows = [s \in AllSheets |-> { }]
    /\ freqSource = << >>
    /\ freqBuilt = ""
    /\ freqRows = << >>
    /\ joinSources \in [1..NSources -> { [nKeys |-> n, rows |-> << >>] : n \in KeyWidths }]
    /\ jointype = ""
    /\ joinRows = << >>
    /\ drill = << >>
    /\ readonly = FALSE
    /\ NothingEdited
    /\ NothingSaved
    /\ NothingDetected

\* a loader appends a row to source i, before the join is built
LoadRow(i, k, f) ==
    /\ jointype = ""
    /\ TotalRows < MaxJoinRows
    /\ joinSources' = [joinSources EXCEPT ![i].rows =
                          Append(@, [id |-> Len(@) + 1, k |-> k, falsy |-> f])]
    /\ UNCHANGED << jointype, joinRows >>
    /\ UNCHANGED << appVars, freqVars, tsvVars, typeVars >>

\* SheetJoin(sheets, jointype): the join of the sources is built
Join(jt) ==
    /\ jointype' = jt
    /\ joinRows' = reload(joinSources, jt)
    /\ UNCHANGED joinSources
    /\ UNCHANGED << appVars, freqVars, tsvVars, typeVars >>

NextJoin ==
    \/ \E i \in 1..NSources, k \in KeyValues, f \in BOOLEAN : LoadRow(i, k, f)
    \/ \E jt \in JoinTypes : Join(jt)

SpecJoin == InitJoin /\ [][NextJoin]_vars

----------------------------------------------------------------------------
(* The frequency table: SheetFreqTable *)

\* A source row is [id, v]: its place in the row list and the value of its cell
\* in the column; a value is [ty, s]: its Python type and its string form.  The
\* int 1 and the str '1' are two values with one string form.
FreqValues ==
    { [ty |-> "int", s |-> "1"], [ty |-> "str", s |-> "1"],
      [ty |-> "int", s |-> "2"], [ty |-> "str", s |-> "b"] }

\* str(v)
str(v) == v.s

\* a grouping that opens a new group for every source row
ValuesUpTo_NoGrouping(src, n) ==
    [i \in 1..n |-> [value |-> str(src[i].v), rows |-> << src[i] >>]]

\* self.values after the first n source rows: values[str(col.getValue(r))].append(r),
\* a dict in insertion order, as the list of its items [value, rows]
RECURSIVE ValuesUpTo(_, _)
ValuesUpTo(src, n) ==
    IF n = 0 THEN << >>
    ELSE LET acc == ValuesUpTo(src, n - 1)
             key == str(src[n].v)
         IN  IF \E i \in 1..Len(acc) : acc[i].value = key
             THEN [i \in 1..Len(acc) |->
                     IF acc[i].value = key
                     THEN [acc[i] EXCEPT !.rows = Append(@, src[n])]
                     ELSE acc[i]]
             ELSE Append(acc, [value |-> key, rows |-> << src[n] >>])

\* SheetFreqTable.reload: sorted(self.values.items(), key=lambda r: len(r[1]), reverse=True)
FreqReload(items) == sorted(items, [x \in Elems(items) |-> Len(x.rows)], TRUE)

\* A sheet with no row yet and no frequency table; the application loop is not
\* running.
InitFreq ==
    /\ pc = "start"
    /\ sheets = << >>
    /\ prefixes = << >>
    /\ ch = "SPACE"
    /\ branch = "start"
    /\ debug = FALSE
    /\ lastErrors = << >>
    /\ status = << Msg("initial", "", << >>, 0) >>
    /\ statusstr = << >>
    /\ statusHistory = << Msg("initial", "", << >>, 0) >>
    /\ rows = [s \in AllSheets |-> << >>]
    /\ cursorRowIndex = [s \in AllSheets |-> 0]
    /\ selectedRows = [s \in AllSheets |-> { }]
    /\ joinSources = << >>
    /\ jointype = ""
    /\ joinRows = << >>
    /\ freqSource = << >>
    /\ freqBuilt = ""
    /\ freqRows = << >>
    /\ drill = << >>
    /\ readonly = FALSE
    /\ NothingEdited
    /\ NothingSaved
    /\ NothingDetected

\* a loader appends a row to the source sheet, before the table is built and
\* while the sheet has fewer than limit rows
LoadFreqRowUpTo(v, limit) ==
    /\ freqBuilt = ""
    /\ Len(freqSource) < limit
    /\ freqSource' = Append(freqSource, [id |-> Len(freqSource) + 1, v |-> v])
    /\ UNCHANGED << freqBuilt, freqRows, drill >>
    /\ UNCHANGED << appVars, joinVars, tsvVars, typeVars >>

\* SheetFreqTable(sheet, col): the rows are grouped and reload() sorts the
\* groups; self.rows[0] raises when the source sheet has no rows
BuildFreq ==
    /\ freqBuilt = ""
    /\ IF freqSource = << >>
       THEN freqBuilt' = "failed" /\ freqRows' = << >>
       ELSE /\ freqBuilt' = "built"
            /\ freqRows' = FreqReload(ValuesUpTo(freqSource, Len(freqSource)))
    /\ UNCHANGED << freqSource, drill >>
    /\ UNCHANGED << appVars, joinVars, tsvVars, typeVars >>

LoadFreqRow(v) == LoadFreqRowUpTo(v, MaxFreqRows)

NextFreq ==
    \/ \E v \in FreqValues : LoadFreqRow(v)
    \/ BuildFreq

SpecFreq == InitFreq /\ [][NextFreq]_vars

\* the index in freqRows of the bucket of value key
BucketOf(key) == CHOOSE i \in 1..Len(freqRows) : freqRows[i].value = key

\* the rows of the sheet ENTER opened: the list values[key] itself
DrillRows == freqRows[BucketOf(drill.value)].rows

\* ENTER on row i of the frequency table:
\* vd.push(copy(source)).rows = values[str(columns[0].getValue(cursorRow))].
\* The copy of the source sheet keeps the row cursor c of the source sheet.
Drill(i, c) ==
    /\ freqBuilt = "built"
    /\ i \in 1..Len(freqRows)
    /\ drill' = [value |-> freqRows[i].value, cursor |-> c]
    /\ UNCHANGED << freqSource, freqBuilt, freqRows >>
    /\ UNCHANGED << appVars, joinVars, tsvVars, typeVars >>

\* d on the sheet ENTER opened: rows.pop(cursorRowIndex), on the list the bucket
\* holds; then checkCursor
DrillDelete ==
    /\ drill # << >>
    /\ PopIndex(DrillRows, drill.cursor) # -1
    /\ freqRows' = [freqRows EXCEPT ![BucketOf(drill.value)].rows = ListPop(@, drill.cursor)]
    /\ drill' = [drill EXCEPT !.cursor = checkCursor(@, Len(DrillRows) - 1)]
    /\ UNCHANGED << freqSource, freqBuilt >>
    /\ UNCHANGED << appVars, joinVars, tsvVars, typeVars >>

\* g Shift-K on the sheet ENTER opened: moveListItem(rows, cursorRowIndex, 0), on
\* the list the bucket holds; then checkCursor
DrillMoveToTop ==
    /\ drill # << >>
    /\ PopIndex(DrillRows, drill.cursor) # -1
    /\ freqRows' = [freqRows EXCEPT ![BucketOf(drill.value)].rows =
                        moveListItem(@, drill.cursor, 0)]
    /\ drill' = [drill EXCEPT !.cursor = checkCursor(@, Len(DrillRows))]
    /\ UNCHANGED << freqSource, freqBuilt >>
    /\ UNCHANGED << appVars, joinVars, tsvVars, typeVars >>

\* d on the source sheet with the cursor on its row c: rows.pop(cursorRowIndex)
SourceDelete(c) ==
    /\ freqBuilt = "built"
    /\ PopIndex(freqSource, c) # -1
    /\ freqSource' = ListPop(freqSource, c)
    /\ UNCHANGED << freqBuilt, freqRows, drill >>
    /\ UNCHANGED << appVars, joinVars, tsvVars, typeVars >>

NextDrill ==
    \/ \E v \in FreqValues : LoadFreqRowUpTo(v, MaxDrillRows)
    \/ BuildFreq
    \/ \E i \in 1..MaxDrillRows, c \in 0..(MaxDrillRows - 1) : Drill(i, c)
    \/ DrillDelete
    \/ DrillMoveToTop
    \/ \E c \in 0..(MaxDrillRows - 1) : SourceDelete(c)

SpecDrill == InitFreq /\ [][NextDrill]_vars

----------------------------------------------------------------------------
(* Properties of the application loop *)

\* L without the elements equal to x, order kept
Without(L, x) == SelectSeq(L, LAMBDA e : e # x)

\* T is S after push(s): s at the head, the other sheets in their order, the
\* length unchanged when s was on S and one more when it was not
PushedOnto(S, T, s) ==
    /\ T # << >>
    /\ T[1] = s
    /\ Without(T, s) = Without(S, s)
    /\ Len(T) = IF s \in Elems(S) THEN Len(S) ELSE Len(S) + 1

NoDuplicateSheets ==
    \A i, j \in 1..Len(sheets) : sheets[i] = sheets[j] => i = j

\* the steps that handle a keystroke
KeyBranches == { "done", "prefix", "escape", "fail", "nocmd" }
KeyStep == pc = "getch" /\ branch' \in KeyBranches

\* a step in which F1 pushes the help sheet, Ctrl-R pushes the reloaded sheet, or
\* a newly opened sheet is pushed
PushSteps ==
    /\ (KeyStep /\ prefixes = << >> /\ ch' = "F1")
          => PushedOnto(sheets, sheets', CommandHelp(Head(sheets)))
    /\ (KeyStep /\ prefixes = << >> /\ ch' = "^R" /\ branch' = "done")
          => PushedOnto(Tail(sheets), sheets', Head(sheets))
    /\ (KeyStep /\ prefixes = << >> /\ ch' = "o" /\ branch' = "done")
          => NewSheet \notin Elems(sheets) /\ PushedOnto(sheets, sheets', NewSheet)
    /\ (pc = "start" /\ sheets' # sheets)
          => NewSheet \notin Elems(sheets) /\ PushedOnto(sheets, sheets', NewSheet)

\* C1: whatever stack commands are run (push, q, Ctrl-^, TAB, BTAB), no sheet is
\* on the stack twice; push(s) of a sheet on the stack keeps the length, puts s
\* at the head and keeps the order of the others; push(s) of an absent sheet
\* grows the stack by one with s at the head.
C1_PushDedupes == []NoDuplicateSheets /\ [][PushSteps]_vars

\* the help sheet has been pushed on top of at least two other sheets
C1_Witness ==
    /\ pc = "loop" /\ ch = "F1" /\ branch = "done"
    /\ Len(sheets) >= 3
    /\ sheets[1] = CommandHelp(sheets[2])

\* C2: run returns normally only with an empty sheet stack.
C2_ReturnsOnlyWhenEmpty == pc = "returned" => sheets = << >>

\* run has returned, with debug off, after a failure was caught
C2_Witness == pc = "returned" /\ ~debug /\ FailCount > 0

\* C3: with debug off when the failure is caught, a failure of sheet.draw or of
\* a bound command is contained: the loop stays Running (a sheet is on the
\* stack) and goes on to the next iteration, the failure is appended to the
\* error history, and a command failure clears the prefix.
C3_FailureContained ==
    [][ (pc \in { "loop", "getch" } /\ branch' \in { "fail", "drawfail" } /\ ~debug')
          => /\ pc' \in { "loop", "getch" }
             /\ sheets' # << >>
             /\ lastErrors' # << >>
             /\ lastErrors'[Len(lastErrors')] = FailCount + 1
             /\ Len(lastErrors') = Min(Len(lastErrors) + 1, ErrKeep)
             /\ (branch' = "fail" => prefixes' = << >>) ]_vars

C9_FailureKeepsStack ==
    [][ (pc = "getch" /\ ~debug /\ branch' = "fail") => sheets' = sheets ]_vars

\* the row under the cursor of sheet s, for row list L and cursors cur
RowAtCursor(L, cur, s) == L[s][cur[s] + 1]

\* C10: after a move-row command (J, K, g J, g K) on a non-empty sheet has been
\* handled, the row under the cursor is the row that was under it before, and
\* the rows are the previous rows with the other rows in their previous order.
C10_CursorFollowsMovedRow ==
    [][ (KeyStep /\ ch' \in { "J", "K" } /\ branch' = "done" /\ rows[Head(sheets)] # << >>)
          => LET s == Head(sheets)
                 r == RowAtCursor(rows, cursorRowIndex, s)
             IN  /\ cursorRowIndex'[s] \in 0..(Len(rows'[s]) - 1)
                 /\ RowAtCursor(rows', cursorRowIndex', s) = r
                 /\ Len(rows'[s]) = Len(rows[s])
                 /\ Without(rows'[s], r) = Without(rows[s], r) ]_vars

\* the active sheet after g Shift-K is pressed in the current state and the
\* iteration's clamp has run: its rows, cursor and selection
AfterMoveToTop ==
    LET sheet == Head(sheets)
        o     == CHOOSE x \in exec_command(G, "K") : TRUE
    IN  [rows |-> o.rows[sheet],
         cur  |-> CursorsChecked(sheet, o.rows, o.cur)[sheet],
         sel  |-> o.sel[sheet]]

\* C11: with the cursor on a row r, s followed by g Shift-K leaves r as the
\* first row of the sheet, selected and under the cursor, and the other rows in
\* their previous order: after the step of s, pressing g Shift-K gives that
\* sheet.
C11_SelectThenMoveToTop ==
    [][ (KeyStep /\ prefixes = << >> /\ ch' = "s" /\ branch' = "done")
          => LET sheet == Head(sheets)
                 r     == RowAtCursor(rows, cursorRowIndex, sheet)
                 after == AfterMoveToTop'
             IN  /\ after.rows # << >>
                 /\ after.rows[1] = r
                 /\ r \in after.sel
                 /\ after.cur = 0
                 /\ Without(after.rows, r) = Without(rows[sheet], r) ]_vars

\* the steps of the commands that reorder the rows of the active sheet
ReorderStep ==
    /\ KeyStep
    /\ branch' = "done"
    /\ \/ prefixes \in { NoPrefix, G } /\ ch' \in { "J", "K" }
       \/ prefixes = NoPrefix /\ ch' \in { "[", "]" }

\* C12: a row-reordering command (Shift-J, Shift-K, g Shift-J, g Shift-K, [ and
\* ]) leaves the selection as it was and the rows the same rows, so that each
\* selected row is still selected at its new position; g u leaves the
\* selection of the sheet empty and its rows unchanged.
C12_SelectionUnderReorder ==
    [][ /\ ReorderStep =>
             /\ selectedRows' = selectedRows
             /\ Elems(rows'[Head(sheets)]) = Elems(rows[Head(sheets)])
             /\ Len(rows'[Head(sheets)]) = Len(rows[Head(sheets)])
        /\ (KeyStep /\ prefixes = G /\ ch' = "u") =>
             /\ branch' = "done"
             /\ selectedRows'[Head(sheets)] = { }
             /\ rows' = rows ]_vars

\* a descending sort has moved the rows of sheet 1 while one of them, not the
\* first, is selected
C12_Witness ==
    /\ pc = "loop" /\ ch = "]" /\ branch = "done"
    /\ sheets # << >> /\ Head(sheets) = 1
    /\ rows[1] # LoadedRows(1)
    /\ Len(rows[1]) >= 3
    /\ selectedRows[1] = { rows[1][2] }

\* the steps that handle d, g d, g j, r or a pointer event and go on to the
\* next iteration, the clamp having run
ClampedStep ==
    /\ pc = "getch"
    /\ pc' = "loop"
    /\ \/ branch' = "mouse"
       \/ /\ branch' \in KeyBranches
          /\ << prefixes, ch' >> \in { << NoPrefix, "d" >>, << G, "d" >>, << G, "j" >>,
                                      << NoPrefix, "r" >> }

\* C13: after d, g d, g j, r or a pointer event has been handled and the clamp
\* of the iteration has run, the cursor of the active sheet is in [0, |rows|),
\* and 0 on a sheet without rows; after d on the last row it is
\* max(0, |rows| - 1).
C13_CursorClamped ==
    [][ ClampedStep =>
          LET sheet == Head(sheets)
              n     == Len(rows'[sheet])
              c     == cursorRowIndex'[sheet]
          IN  /\ sheets' = sheets
              /\ IF n = 0 THEN c = 0 ELSE c \in 0..(n - 1)
              /\ ( /\ prefixes = NoPrefix /\ ch' = "d" /\ branch' = "done"
                   /\ cursorRowIndex[sheet] = Len(rows[sheet]) - 1 )
                    => /\ n = Len(rows[sheet]) - 1
                       /\ c = Max(0, n - 1) ]_vars

\* d has deleted the last row of sheet 1 under the cursor, and the cursor is
\* on the row before it
C13_Witness ==
    /\ pc = "loop" /\ ch = "d" /\ branch = "done"
    /\ sheets # << >> /\ Head(sheets) = 1
    /\ rows[1] = SubSeq(LoadedRows(1), 1, MaxRows - 1)
    /\ cursorRowIndex[1] = MaxRows - 2
    /\ selectedRows[1] # { }

\* C16: the accumulated prefix is always empty or the one prefix character g,
\* and g pressed after g leaves no prefix of length two: it is unbound and
\* clears the prefix.
C16_OnePrefixLevel ==
    /\ [](prefixes \in { NoPrefix, G })
    /\ [][ (KeyStep /\ prefixes = G /\ ch' = "g")
             => branch' = "nocmd" /\ prefixes' = NoPrefix ]_vars

\* g was pressed after g and found unbound
C16_Witness == pc = "loop" /\ ch = "g" /\ branch = "nocmd" /\ prefixes = NoPrefix

\* C17: a keystroke with no binding under the accumulated prefix clears the
\* prefix, and the message issued names the key and the prefix that was
\* accumulated when the key was pressed.
C17_NoCommandNamesPrefix ==
    [][ (KeyStep /\ branch' = "nocmd")
          => /\ prefixes' = NoPrefix
             /\ status' # << >>
             /\ status'[Len(status')] = Msg("nocmd", ch', prefixes, 0) ]_vars

\* C18: after a bound command has failed with debug off, the pending status
\* messages contain the last line of the failure and the help text of the
\* command.
C18_StatusAfterFailure ==
    [][ (KeyStep /\ branch' = "fail" /\ ~debug')
          => /\ Msg("error", "", << >>, FailCount + 1) \in Elems(status')
             /\ helpstr(prefixes, ch') \in Elems(status') ]_vars

\* C19: the error history holds at most 10 failures, consecutive ones in the
\* order they occurred, from the first failure while fewer than 10 were
\* caught; a caught failure is its newest entry, behind the entries that are
\* kept.
C19_ErrorHistory ==
    /\ [](/\ Len(lastErrors) <= ErrKeep
          /\ \A i \in 1..(Len(lastErrors) - 1) : lastErrors[i + 1] = lastErrors[i] + 1
          /\ (lastErrors # << >> /\ Len(lastErrors) < ErrKeep) => lastErrors[1] = 1)
    /\ [][ (pc \in { "loop", "getch" } /\ branch' \in { "fail", "drawfail" })
             => /\ Len(lastErrors') = Min(Len(lastErrors) + 1, ErrKeep)
                /\ lastErrors'[Len(lastErrors')] = FailCount + 1
                /\ \A i \in 1..(Len(lastErrors') - 1) :
                      lastErrors'[i] = lastErrors[Len(lastErrors) - Len(lastErrors') + 1 + i] ]_vars

\* more than 10 failures were caught: the history is full and its oldest entry
\* is not the first failure
C19_Witness == Len(lastErrors) = ErrKeep /\ lastErrors[1] > 1 /\ pc = "loop"

----------------------------------------------------------------------------
(* Properties of the frequency table *)

\* the string form of the cell of a source row
Text(r) == r.v.s

\* the places of the output rows that hold the source row r
RowsHolding(r) == { n \in 1..Len(freqRows) : r \in Elems(freqRows[n].rows) }

\* the place in the source of the first row with this string form
FirstSeen(s) ==
    CHOOSE j \in 1..Len(freqSource) :
        /\ Text(freqSource[j]) = s
        /\ \A m \in 1..(j - 1) : Text(freqSource[m]) # s

\* the sum of the counts of the first n output rows
RECURSIVE CountSum(_)
CountSum(n) == IF n = 0 THEN 0 ELSE CountSum(n - 1) + Len(freqRows[n].rows)

\* C14: a frequency table has exactly one row per distinct string form of the
\* column's values, every source row is in the list of exactly one output row,
\* the one of its string form, and the counts add up to the number of source
\* rows.
C14_FreqPartition ==
    freqBuilt = "built" =>
        /\ Len(freqRows) = Cardinality({ Text(freqSource[j]) : j \in 1..Len(freqSource) })
        /\ \A m, n \in 1..Len(freqRows) : freqRows[m].value = freqRows[n].value => m = n
        /\ \A j \in 1..Len(freqSource) :
              /\ Cardinality(RowsHolding(freqSource[j])) = 1
              /\ \A n \in RowsHolding(freqSource[j]) : freqRows[n].value = Text(freqSource[j])
        /\ CountSum(Len(freqRows)) = Len(freqSource)

\* a table was built from rows of which an int and a str have one string form
C14_Witness ==
    /\ freqBuilt = "built"
    /\ Len(freqRows) >= 2
    /\ \E i, j \in 1..Len(freqSource) :
          /\ freqSource[i].v.ty # freqSource[j].v.ty
          /\ Text(freqSource[i]) = Text(freqSource[j])

\* C15: the rows of a frequency table are in non-increasing order of count,
\* and of two values with equal counts the one first met in the source rows
\* comes first.
C15_FreqOrder ==
    freqBuilt = "built" =>
        \A m, n \in 1..Len(freqRows) :
            m < n =>
                /\ Len(freqRows[m].rows) >= Len(freqRows[n].rows)
                /\ Len(freqRows[m].rows) = Len(freqRows[n].rows)
                      => FirstSeen(freqRows[m].value) < FirstSeen(freqRows[n].value)

\* a table in which two values with equal counts follow a value met after them
C15_Witness ==
    /\ freqBuilt = "built"
    /\ Len(freqRows) = 3
    /\ Len(freqRows[1].rows) > Len(freqRows[2].rows)
    /\ Len(freqRows[2].rows) = Len(freqRows[3].rows)
    /\ FirstSeen(freqRows[1].value) > FirstSeen(freqRows[3].value)

----------------------------------------------------------------------------
(* Properties of the join engine *)

\* source vs has a row with this key
HasRow(vs, key) == \E j \in 1..Len(vs.rows) : KeyOf(vs, vs.rows[j]) = key

\* the last row of vs, in its row order, with this key
LastRow(vs, key) ==
    LET j == CHOOSE m \in 1..Len(vs.rows) :
                 /\ KeyOf(vs, vs.rows[m]) = key
                 /\ \A n \in (m + 1)..Len(vs.rows) : KeyOf(vs, vs.rows[n]) # key
    IN  vs.rows[j]

\* every source has a row with this key
InAllSources(srcs, key) == \A i \in 1..Len(srcs) : HasRow(srcs[i], key)

\* the keys of all the rows of all the sources
AllKeys(srcs) ==
    UNION { { KeyOf(srcs[i], srcs[i].rows[j]) : j \in 1..Len(srcs[i].rows) } :
            i \in 1..Len(srcs) }


\* the places of the combined rows with this key in the output L
RowsWithKey(L, key) == { n \in 1..Len(L) : L[n].key = key }

\* C5: the inner join holds exactly one combined row for each key for which
\* every source has a row and no row for any other key, for every key width
\* (zero key columns included), and every output row has a row of every source.
C5_InnerJoin ==
    jointype = "&" =>
        /\ \A key \in AllKeys(joinSources) :
              InAllSources(joinSources, key)
                 => Cardinality(RowsWithKey(joinRows, key)) = 1
        /\ \A n \in 1..Len(joinRows) :
              /\ InAllSources(joinSources, joinRows[n].key)
              /\ \A i \in 1..Len(joinSources) : joinRows[n].slots[i] # None

\* C6: for the same sources the inner join and the antijoin partition the full
\* outer join: each full-outer row is in exactly one of the two, in the inner
\* join when every source has a row for its key and in the antijoin otherwise,
\* and neither holds a row that the full outer join does not.
C6_InnerAntiPartition ==
    jointype = "*" =>
        LET inner == Elems(reload(joinSources, "&"))
            anti  == Elems(reload(joinSources, "~"))
            full  == Elems(joinRows)
        IN  /\ inner \subseteq full
            /\ anti \subseteq full
            /\ \A c \in full :
                  /\ (c \in inner) # (c \in anti)
                  /\ (c \in inner) <=> InAllSources(joinSources, c.key)

C8_OuterKeepsFirstSheet ==
    jointype = "+" =>
        /\ \A j \in 1..Len(joinSources[1].rows) :
              \E n \in 1..Len(joinRows) : joinRows[n].slots[1] = joinSources[1].rows[j]
        /\ \A n \in 1..Len(joinRows) : joinRows[n].slots[1] # None


----------------------------------------------------------------------------
(* The pending status messages and the status line *)

\* the messages a status line shows: what stands after the sheet name, between
\* the separators
Shown(line) == [i \in 1..(Len(line) \div 2) |-> line[2 * i]]

IsPrefix(a, b) == Len(a) <= Len(b) /\ SubSeq(b, 1, Len(a)) = a

\* a step in which drawLeftStatus draws the status line
DrawStep == pc = "loop" /\ pc' = "getch"

\* C21: between two draws of the left status line every step keeps the pending
\* messages and adds the messages it issues behind them, in issue order; the
\* draw shows every pending message, in that order and joined by the
\* separator, and leaves the pending buffer empty, so that no message is shown
\* by two draws.
C21_PendingFlushed ==
    [][ /\ ~DrawStep => IsPrefix(status, status')
        /\ DrawStep =>
              /\ IsPrefix(status, Shown(statusstr'))
              /\ statusstr' = StatusLine(Head(sheets), Shown(statusstr'))
              /\ status' = << >> ]_vars

\* C21 witness: the draw after a failed Ctrl-^ has shown the two messages the
\* failure issued and emptied the buffer
C21_Witness ==
    /\ pc = "getch"
    /\ ch = "^^"
    /\ Len(Shown(statusstr)) = 2
    /\ Shown(statusstr)[1].t = "error"
    /\ Shown(statusstr)[2].t = "cmd"
    /\ status = << >>

----------------------------------------------------------------------------
(* Debug mode: exceptionCaught re-raises, curses_main lets it through *)

\* a step in which a bound command or sheet.draw fails
FailureStep == pc \in { "loop", "getch" } /\ branch' \in { "fail", "drawfail" }

\* the failure of the step is the newest entry of the error history
FailureRecorded ==
    /\ lastErrors' # << >>
    /\ lastErrors'[Len(lastErrors')] = FailCount + 1

\* with debug on when the failure is caught, it is recorded and propagates out
\* of run
DebugOnPropagates ==
    [][ (FailureStep /\ debug') => (FailureRecorded /\ pc' = "raised") ]_vars

\* with debug off when the failure is caught, it does not propagate out of run
DebugOffCaught ==
    [][ (FailureStep /\ ~debug') => (FailureRecorded /\ pc' \in { "loop", "getch" }) ]_vars

\* C22: a failure of a bound command or of sheet.draw with debug on is recorded
\* in the error history and propagates out of run, which ends; with debug off
\* it is recorded and does not end the run: it does not propagate, and the
\* loop it leaves behind does not return at its next exit test.
C22_DebugPropagates ==
    [][ FailureStep =>
          /\ FailureRecorded
          /\ debug' => pc' = "raised"
          /\ ~debug' => (pc' \in { "loop", "getch" } /\ ~NoMoreSheets') ]_vars

----------------------------------------------------------------------------
(* Read-only mode: saveSheet, Column.setValue and the e of SheetDict *)

\* in read-only mode Ctrl-S writes no file and, unless its prompt is cancelled,
\* issues the status 'readonly mode'
ReadOnlySaveRefused ==
    [][ readonly =>
          /\ savedFiles' = savedFiles
          /\ (pc = "getch" /\ ch' = "^S" /\ branch' = "done")
                => Msg("readonly mode", "", << >>, 0) \in Elems(status') ]_vars

\* in read-only mode e on a sheet that edits through Column.setValue writes no
\* cell and, unless editCell is cancelled, fails and is reported
ReadOnlyCellKept ==
    [][ readonly =>
          /\ edited' = edited
          /\ (pc = "getch" /\ ch' = "e" /\ Head(sheets) # DictSheet /\ branch' # "escape")
                => (branch' = "fail" /\ cmdstr(<< >>, "e") \in Elems(status')) ]_vars

\* C23: while options.readonly is set no command writes: Ctrl-S writes no file
\* and issues a status, and e on any sheet, a SheetDict included, leaves the
\* source of the sheet (its cells, the mapping) as it was and, unless its
\* prompt is cancelled, is reported as a failed command.
C23_ReadOnlyNoWrite ==
    [][ readonly =>
          /\ savedFiles' = savedFiles
          /\ edited' = edited
          /\ dictSource' = dictSource
          /\ (pc = "getch" /\ ch' = "^S" /\ branch' = "done")
                => Msg("readonly mode", "", << >>, 0) \in Elems(status')
          /\ (pc = "getch" /\ ch' = "e" /\ branch' # "escape")
                => (branch' = "fail" /\ cmdstr(<< >>, "e") \in Elems(status')) ]_vars

----------------------------------------------------------------------------
(* The tab-separated saver and loader: save_tsv, open_tsv *)

\* the characters of a file; a string is a sequence of characters
TAB == "TAB"
NL == "NL"
Whitespace == { TAB, NL, " " }

\* the names of the columns and the display values of the cells
CellStrings == { << >>, << "a" >> }

\* ''.join(L)
RECURSIVE Concat(_)
Concat(L) == IF L = << >> THEN << >> ELSE Head(L) \o Concat(Tail(L))

\* sep.join(L) on strings
JoinStr(sep, L) == Concat(join(sep, L))

\* s.split(sep) up to the first n characters of s
RECURSIVE FieldsUpTo(_, _, _)
FieldsUpTo(s, sep, n) ==
    IF n = 0 THEN << << >> >>
    ELSE LET acc == FieldsUpTo(s, sep, n - 1)
         IN  IF s[n] = sep THEN Append(acc, << >>)
             ELSE [acc EXCEPT ![Len(acc)] = Append(@, s[n])]

\* s.split(sep)
split(s, sep) == FieldsUpTo(s, sep, Len(s))

\* s.splitlines(): the line break at the end of the text ends the last line
splitlines(s) ==
    LET f == split(s, NL)
    IN  IF f[Len(f)] = << >> THEN SubSeq(f, 1, Len(f) - 1) ELSE f

\* s.strip()
strip(s) ==
    LET keep == { i \in 1..Len(s) : s[i] \notin Whitespace }
    IN  IF keep = { } THEN << >>
        ELSE SubSeq(s, CHOOSE i \in keep : \A j \in keep : i <= j,
                       CHOOSE i \in keep : \A j \in keep : i >= j)

\* save_tsv(sheet, fn): the text written to the file
save_tsv(sheet) ==
    LET colhdr == JoinStr(<< TAB >>, sheet.names) \o << NL >>
    IN  (IF strip(colhdr) # << >> THEN colhdr ELSE << >>)
        \o Concat([i \in 1..Len(sheet.rows) |-> JoinStr(<< TAB >>, sheet.rows[i]) \o << NL >>])

\* ArrayColumns(n): n columns, named by the loader's defaults and not by the file
ArrayColumns(n) == [i \in 1..n |-> << >>]

\* open_tsv(p) on the text of the file: lines[0] raises on a file without lines
open_tsv(text, header) ==
    LET lines == splitlines(text)
    IN  IF lines = << >> THEN [state |-> "failed", names |-> << >>, rows |-> << >>]
        ELSE IF header
        THEN [state |-> "loaded", names |-> split(lines[1], TAB),
              rows |-> [i \in 1..(Len(lines) - 1) |-> split(lines[i + 1], TAB)]]
        ELSE [state |-> "loaded", names |-> ArrayColumns(Len(split(lines[1], TAB))),
              rows |-> [i \in 1..Len(lines) |-> split(lines[i], TAB)]]

\* the sheets that are saved: 1..MaxTsvCols visible columns, 1..MaxTsvRows rows
TsvSheets ==
    UNION { [names : [1..nc -> CellStrings], rows : [1..nr -> [1..nc -> CellStrings]]]
            : << nc, nr >> \in (1..MaxTsvCols) \X (1..MaxTsvRows) }

\* a sheet to save and the option csv_header, set or not; the application loop
\* is not running
InitTsv ==
    /\ Constructed
    /\ readonly = FALSE
    /\ NothingDetected
    /\ csv_header \in BOOLEAN
    /\ tsvSheet \in TsvSheets
    /\ tsvFile = NoFile
    /\ tsvLoaded = NotLoaded

\* save_tsv(sheet, fn)
SaveTsv ==
    /\ ~tsvFile.saved
    /\ tsvFile' = [saved |-> TRUE, text |-> save_tsv(tsvSheet)]
    /\ UNCHANGED << csv_header, tsvSheet, tsvLoaded >>
    /\ UNCHANGED << appVars, joinVars, freqVars, typeVars >>

\* open_tsv(fn) of the file written
OpenTsv ==
    /\ tsvFile.saved
    /\ tsvLoaded.state = "none"
    /\ tsvLoaded' = open_tsv(tsvFile.text, csv_header)
    /\ UNCHANGED << csv_header, tsvSheet, tsvFile >>
    /\ UNCHANGED << appVars, joinVars, freqVars, typeVars >>

NextTsv == SaveTsv \/ OpenTsv

SpecTsv == InitTsv /\ [][NextTsv]_vars

\* the visible cell strings of the loaded sheet are those of the saved sheet,
\* row by row and column by column
SameCells ==
    /\ tsvLoaded.state = "loaded"
    /\ Len(tsvLoaded.rows) = Len(tsvSheet.rows)
    /\ \A i \in 1..Len(tsvSheet.rows) : tsvLoaded.rows[i] = tsvSheet.rows[i]

\* whether save_tsv writes a header line for the sheet
HeaderWritten == \E i \in 1..Len(tsvSheet.names) : tsvSheet.names[i] # << >>

\* the round trip when csv_header is set exactly for the sheets whose header
\* line is written
RoundTripWhenHeaderAgrees ==
    (tsvLoaded.state # "none" /\ (csv_header <=> HeaderWritten)) => SameCells

\* C24: the sheet open_tsv makes of the file save_tsv wrote, under the same
\* options, has as many rows as the saved sheet and the same visible cell
\* strings, whether the column names of the saved sheet are empty or not.
C24_TsvRoundTrip == tsvLoaded.state # "none" => SameCells

----------------------------------------------------------------------------
(* Type detection: detectType, ~ and g ~ *)

\* a raw value, as far as detectType can tell values apart: which of int(v),
\* float(v) and date(v) return and which raise
RawValues == [int : BOOLEAN, float : BOOLEAN, date : BOOLEAN]

\* the None that tryType returns
NoType == "None"

\* a or b, of types and None
Or(a, b) == IF a # NoType THEN a ELSE b

\* tryType(T, v): T when T(v) returns, None when it raises anything
tryType(T, v) == IF v[T] THEN T ELSE NoType

\* a detection that tries float before int
detectType_FloatFirst(v) ==
    Or(Or(Or(tryType("float", v), tryType("int", v)), tryType("date", v)), "str")

\* detectType(v): tryType(int, v) or tryType(float, v) or tryType(date, v) or str
detectType(v) ==
    Or(Or(Or(tryType("int", v), tryType("float", v)), tryType("date", v)), "str")

\* the type of a column before any detection: anytype
anytype == ""

\* the cells of the cursor row in the visible columns; no type detected yet; the
\* application loop is not running
InitTypes ==
    /\ Constructed
    /\ readonly = FALSE
    /\ NothingSaved
    /\ colValue \in [1..MaxTypeCols -> RawValues]
    /\ colType = [c \in 1..MaxTypeCols |-> anytype]

\* ~ with the cursor in column c: cursorCol.type = detectType(cursorValue)
Autodetect(c) ==
    /\ colType' = [colType EXCEPT ![c] = detectType(colValue[c])]
    /\ UNCHANGED colValue
    /\ UNCHANGED << appVars, joinVars, freqVars, tsvVars >>

\* g ~: for c in visibleCols: c.type = detectType(c.getValue(cursorRow))
AutodetectAll ==
    /\ colType' = [c \in DOMAIN colType |-> detectType(colValue[c])]
    /\ UNCHANGED colValue
    /\ UNCHANGED << appVars, joinVars, freqVars, tsvVars >>

NextTypes ==
    \/ \E c \in 1..MaxTypeCols : Autodetect(c)
    \/ AutodetectAll

SpecTypes == InitTypes /\ [][NextTypes]_vars

\* C25: the type detected for a value is int when int accepts it, else float
\* when float accepts it, else date when date accepts it, else str; so a value
\* int accepts is never detected as float or date, and a parser that raises
\* leaves detectType with a type to return.
C25_DetectOrder ==
    \A c \in DOMAIN colType :
        colType[c] # anytype =>
            LET v == colValue[c]
                T == colType[c]
            IN  /\ T \in { "int", "float", "date", "str" }
                /\ v.int => T = "int"
                /\ (~v.int /\ v.float) => T = "float"
                /\ (~v.int /\ ~v.float /\ v.date) => T = "date"
                /\ (~v.int /\ ~v.float /\ ~v.date) => T = "str"

\* C25 witness: the types of two columns were detected, one of a value that
\* int, float and date all accept, one of a value that none of them accepts
C25_Witness ==
    /\ colType # << >>
    /\ \E c, d \in DOMAIN colType :
          /\ colValue[c].int /\ colValue[c].float /\ colValue[c].date
          /\ colType[c] = "int"
          /\ ~colValue[d].int /\ ~colValue[d].float /\ ~colValue[d].date
          /\ colType[d] = "str"

----------------------------------------------------------------------------
(* Termination: the exit test of run *)

\* the iteration of run begins with no sheet on the stack
AtExitTest == pc = "loop" /\ sheets = << >>

\* C26: once q on the only sheet or g q has emptied the stack, the next
\* iteration of run returns: the step it takes from its exit test draws no
\* status line and takes no key, and run does return.
C26_EmptyStackTerminates ==
    /\ [][ AtExitTest => (pc' = "returned" /\ statusstr' = statusstr
                                            /\ status' = status /\ ch' = ch) ]_vars
    /\ ((AtExitTest /\ ch = "q") ~> pc = "returned")

\* C26 witness: run has returned after a q that no failure preceded
C26_Witness == pc = "returned" /\ ch = "q" /\ branch = "return" /\ FailCount = 0

----------------------------------------------------------------------------
(* Cycling through the sheet stack: TAB and BTAB *)

\* the stack after n TABs
RECURSIVE CycleTimes(_, _)
CycleTimes(S, n) == IF n = 0 THEN S ELSE Cycle(CycleTimes(S, n - 1))

\* BTAB undoes TAB, TAB undoes BTAB, and as many TABs as there are sheets
\* bring the stack back
CyclesUndone ==
    sheets # << >> =>
        /\ ReverseCycle(Cycle(sheets)) = sheets
        /\ Cycle(ReverseCycle(sheets)) = sheets
        /\ CycleTimes(sheets, Len(sheets)) = sheets

\* TAB puts the head sheet behind the others and BTAB the last sheet before
\* the others, the others keeping their order
CycleSteps ==
    /\ (KeyStep /\ prefixes = << >> /\ ch' = "TAB")
          => sheets' = Tail(sheets) \o << Head(sheets) >>
    /\ (KeyStep /\ prefixes = << >> /\ ch' = "BTAB")
          => sheets' = << sheets[Len(sheets)] >> \o SubSeq(sheets, 1, Len(sheets) - 1)

\* C27: TAB moves the head sheet to the tail of the stack and BTAB the tail
\* sheet to the head; the other sheets keep their relative order and the stack
\* holds the same sheets; BTAB after TAB, TAB after BTAB, and n TABs on a
\* stack of n sheets give the stack back.
C27_CycleRotates == []CyclesUndone /\ [][CycleSteps]_vars

\* C27 witness: TAB was pressed on a stack of at least three sheets
C27_Witness == pc = "loop" /\ ch = "TAB" /\ branch = "done" /\ Len(sheets) >= 3

----------------------------------------------------------------------------
(* The selection and the deletion of rows *)

\* every selected row of a sheet is one of its rows
SelectionInRows == \A s \in AllSheets : selectedRows[s] \subseteq Elems(rows[s])

\* g d removes the selected rows of the active sheet and no other, keeps the
\* order of the rows that stay, and empties the selection
DeleteSelectedStep ==
    (KeyStep /\ prefixes = G /\ ch' = "d") =>
        /\ branch' = "done"
        /\ rows'[Head(sheets)] =
              SelectSeq(rows[Head(sheets)], LAMBDA r : r \notin selectedRows[Head(sheets)])
        /\ \A s \in AllSheets \ { Head(sheets) } : rows'[s] = rows[s]
        /\ selectedRows'[Head(sheets)] = { }

\* the g d half of C30
DeleteSelectedExact == [][DeleteSelectedStep]_vars

\* C30: whatever select, unselect, toggle, d and g d commands were executed,
\* every selected row of a sheet is one of its rows; g d removes exactly the
\* selected rows, keeps the other rows in their order and leaves the selection
\* empty.
C30_SelectionSubsetOfRows == []SelectionInRows /\ [][DeleteSelectedStep]_vars

----------------------------------------------------------------------------
(* The buckets of a frequency table and the sheets opened on them *)

\* the buckets of the built table are those of the step before
BucketsKept == (freqBuilt = "built" /\ freqBuilt' = "built") => freqRows' = freqRows

\* a deletion on the source sheet keeps the buckets
SourceDeleteKeepsBuckets ==
    [][ (freqBuilt = "built" /\ freqSource' # freqSource) => freqRows' = freqRows ]_vars

\* the sheet ENTER opens has the rows of the bucket under the cursor
DrillOpensBucket ==
    [][ (drill' # drill /\ freqRows' = freqRows)
          => \E i \in 1..Len(freqRows) :
                /\ freqRows[i].value = drill'.value
                /\ DrillRows' = freqRows[i].rows ]_vars

\* C28: between the construction of a frequency table and a reload no step
\* changes the row list or the count of a bucket, be it a deletion or a move
\* of a row on the sheet ENTER opened or a deletion on the source sheet; and
\* the sheet ENTER opens has exactly the rows of the chosen bucket.
C28_BucketsFixed ==
    [][ /\ BucketsKept
        /\ (drill' # drill /\ freqRows' = freqRows)
              => \E i \in 1..Len(freqRows) :
                    /\ freqRows[i].value = drill'.value
                    /\ DrillRows' = freqRows[i].rows ]_vars

----------------------------------------------------------------------------
(* The Sheets sheet: ENTER goes to the sheet under the cursor *)

\* a step in which ENTER is handled on the Sheets sheet
GotoStep == KeyStep /\ prefixes = << >> /\ ch' = "ENTER" /\ Head(sheets) = SheetsSheet

\* the sheet under the cursor of the Sheets sheet
CursorSheet == sheets[cursorRowIndex[SheetsSheet] + 1]

\* ENTER with the cursor on the row of another sheet: that sheet is active, the
\* Sheets sheet is off the stack and the other sheets are in their order
GotoOtherSheet ==
    [][ (GotoStep /\ CursorSheet # SheetsSheet)
          => /\ branch' = "done"
             /\ sheets' = << CursorSheet >> \o Without(Without(sheets, SheetsSheet), CursorSheet)
       ]_vars

\* C29: ENTER on the Sheets sheet, the head of the stack, with the cursor on
\* the row of a sheet s, whichever row it is: the command completes, the
\* Sheets sheet is off the stack, every other sheet is on it, s before the
\* others and the others in their previous order.
C29_GotoSheet ==
    [][ GotoStep
          => /\ branch' = "done"
             /\ SheetsSheet \notin Elems(sheets')
             /\ Without(sheets', CursorSheet)
                  = Without(Without(sheets, SheetsSheet), CursorSheet)
             /\ CursorSheet # SheetsSheet => Head(sheets') = CursorSheet ]_vars

====
